---- MODULE Spec2Model ----
(***************************************************************************)
(* A model of the Smart Notes application (src/app.js, class NotesApp):    *)
(* the note collection with its CRUD operations, the search / sort query   *)
(* engine (getFilteredNotes, sortNotes), the highlighter (highlightText,   *)
(* escapeHtml, escapeRegex) and the render step.                           *)
(*                                                                         *)
(* JavaScript strings are sequences of one-character strings, so that      *)
(* toLowerCase, trim, includes, escaping and comparison are computed.      *)
(***************************************************************************)
EXTENDS Integers, Sequences, FiniteSets, TLC

VARIABLES
    notes,          \* this.notes: the array of note objects
    searchQuery,    \* this.searchQuery
    sortBy,         \* this.sortBy
    rendered,       \* the notes whose cards are in #notesContainer, in order
    storage,        \* localStorage['smartNotes'] (serialised), or NoItem
    now,            \* the clock, in milliseconds
    saveFailures,   \* how many times localStorage.setItem has thrown
    pc,             \* which machine runs and where it stands
    text,           \* highlighter input: the text
    query,          \* highlighter input: the query
    markup,         \* highlighter output
    currentNoteId,  \* this.currentNoteId
    activeModals,   \* the modals whose classList holds 'active'
    openedFor       \* for each modal, the noteId it was last opened with

vars == <<notes, searchQuery, sortBy, rendered, storage, now, saveFailures, pc,
          text, query, markup, currentNoteId, activeModals, openedFor>>

modalVars == <<currentNoteId, activeModals, openedFor>>

(***************************************************************************)
(* Bounds of the model.                                                    *)
(***************************************************************************)
MaxNotes == 2       \* notes held by the running application
MaxInput == 3       \* notes in a collection handed to the query engine
MaxTextLen == 3     \* characters of a text handed to the highlighter
MaxRandom == 2      \* distinct outcomes of Math.random() in generateId
MaxSaveFailures == 1    \* times the store refuses a write (quota exceeded)

(***************************************************************************)
(* Strings.                                                                *)
(***************************************************************************)
EmptyString == <<>>

\* String.prototype.toLowerCase on one character
LowerChar(c) ==
    CASE c = "A" -> "a"
      [] c = "B" -> "b"
      [] c = "C" -> "c"
      [] OTHER -> c

\* String.prototype.toLowerCase
toLowerCase(s) == [i \in 1..Len(s) |-> LowerChar(s[i])]

IsWhiteSpace(c) == c = " "

RECURSIVE trimStart(_)
trimStart(s) ==
    IF s # <<>> /\ IsWhiteSpace(Head(s)) THEN trimStart(Tail(s)) ELSE s

RECURSIVE trimEnd(_)
trimEnd(s) ==
    IF s # <<>> /\ IsWhiteSpace(s[Len(s)])
    THEN trimEnd(SubSeq(s, 1, Len(s) - 1))
    ELSE s

\* String.prototype.trim
trim(s) == trimEnd(trimStart(s))

\* String.prototype.includes: q occurs in s as a contiguous substring
includes(s, q) ==
    \E i \in 0..(Len(s) - Len(q)) : SubSeq(s, i + 1, i + Len(q)) = q

(***************************************************************************)
(* Dates.  Date.prototype.toISOString writes an instant (milliseconds) as  *)
(* calendar fields; new Date(iso) reads the fields back.  Only the seconds *)
(* and milliseconds fields vary within the instants of the model.          *)
(***************************************************************************)
MsPerSecond == 1000

Instants == {999, 1000}

toISOString(t) == <<t \div MsPerSecond, t % MsPerSecond>>

\* a reading that keeps the milliseconds field alone
DateParseMillisecondsField(iso) == iso[2]

\* new Date(isoString), as the number the subtraction in sortNotes uses
DateParse(iso) == iso[1] * MsPerSecond + iso[2]

(***************************************************************************)
(* localeCompare on lower-cased titles: collation of the letters.          *)
(***************************************************************************)
CollationRank(c) ==
    CASE c = " " -> 0
      [] c = "a" -> 1
      [] c = "A" -> 1
      [] c = "b" -> 2
      [] c = "B" -> 2
      [] c = "c" -> 3
      [] c = "C" -> 3
      [] OTHER -> 4

\* a tertiary difference: the root collation puts a lower-case letter first
CaseRank(c) == IF c \in {"A", "B", "C"} THEN 1 ELSE 0

RECURSIVE CompareBy(_, _, _)
CompareBy(s, t, level) ==
    IF s = <<>> /\ t = <<>> THEN 0
    ELSE IF s = <<>> THEN -1
    ELSE IF t = <<>> THEN 1
    ELSE LET x == IF level = 1 THEN CollationRank(Head(s)) ELSE CaseRank(Head(s))
             y == IF level = 1 THEN CollationRank(Head(t)) ELSE CaseRank(Head(t))
         IN  IF x < y THEN -1
             ELSE IF x > y THEN 1
             ELSE CompareBy(Tail(s), Tail(t), level)

\* String.prototype.localeCompare: primary weights first, then case
localeCompare(s, t) ==
    LET primary == CompareBy(s, t, 1)
    IN  IF primary # 0 THEN primary ELSE CompareBy(s, t, 3)

(***************************************************************************)
(* The query engine: filter, then sort.                                    *)
(***************************************************************************)
SortModes == {"dateDesc", "dateAsc", "titleAsc", "titleDesc"}

\* UTF-16 code units, the order of the < operator on strings
CodeUnit(c) ==
    CASE c = " " -> 32
      [] c = "A" -> 65
      [] c = "B" -> 66
      [] c = "C" -> 67
      [] c = "a" -> 97
      [] c = "b" -> 98
      [] c = "c" -> 99
      [] OTHER -> 0

RECURSIVE CodeUnitCompare(_, _)
CodeUnitCompare(s, t) ==
    IF s = <<>> /\ t = <<>> THEN 0
    ELSE IF s = <<>> THEN -1
    ELSE IF t = <<>> THEN 1
    ELSE IF CodeUnit(Head(s)) < CodeUnit(Head(t)) THEN -1
    ELSE IF CodeUnit(Head(s)) > CodeUnit(Head(t)) THEN 1
    ELSE CodeUnitCompare(Tail(s), Tail(t))

\* a comparator that orders the raw titles by code unit
compareNotesCodeUnits(mode, a, b) ==
    CASE mode = "dateDesc" -> DateParse(b.createdAt) - DateParse(a.createdAt)
      [] mode = "dateAsc" -> DateParse(a.createdAt) - DateParse(b.createdAt)
      [] mode = "titleAsc" -> CodeUnitCompare(a.title, b.title)
      [] mode = "titleDesc" -> CodeUnitCompare(b.title, a.title)
      [] OTHER -> 0

\* a comparator whose titleDesc case is a copy of titleAsc
compareNotesDescCopied(mode, a, b) ==
    CASE mode = "dateDesc" -> DateParse(b.createdAt) - DateParse(a.createdAt)
      [] mode = "dateAsc" -> DateParse(a.createdAt) - DateParse(b.createdAt)
      [] mode = "titleAsc" ->
            localeCompare(toLowerCase(a.title), toLowerCase(b.title))
      [] mode = "titleDesc" ->
            localeCompare(toLowerCase(a.title), toLowerCase(b.title))
      [] OTHER -> 0

\* the comparator sortNotes hands to Array.prototype.sort in each mode
compareNotes(mode, a, b) ==
    CASE mode = "dateDesc" -> DateParse(b.createdAt) - DateParse(a.createdAt)
      [] mode = "dateAsc" -> DateParse(a.createdAt) - DateParse(b.createdAt)
      [] mode = "titleAsc" ->
            localeCompare(toLowerCase(a.title), toLowerCase(b.title))
      [] mode = "titleDesc" ->
            localeCompare(toLowerCase(b.title), toLowerCase(a.title))
      [] OTHER -> 0

\* an insertion that keeps one element per key: x replaces its equal
RECURSIVE InsertSortedDropEqual(_, _, _)
InsertSortedDropEqual(x, s, mode) ==
    IF s = <<>> THEN <<x>>
    ELSE IF compareNotes(mode, Head(s), x) < 0
         THEN <<Head(s)>> \o InsertSortedDropEqual(x, Tail(s), mode)
         ELSE IF compareNotes(mode, Head(s), x) = 0
              THEN <<x>> \o Tail(s)
              ELSE <<x>> \o s

\* one insertion of a stable sort: x goes behind every element that does not
\* compare greater than it
RECURSIVE InsertSorted(_, _, _)
InsertSorted(x, s, mode) ==
    IF s = <<>> THEN <<x>>
    ELSE IF compareNotes(mode, Head(s), x) <= 0
         THEN <<Head(s)>> \o InsertSorted(x, Tail(s), mode)
         ELSE <<x>> \o s

\* a sort that puts x in front of its equals
RECURSIVE ArraySortUnstable(_, _)
ArraySortUnstable(s, mode) ==
    IF s = <<>> THEN <<>>
    ELSE InsertSorted(Head(s), ArraySortUnstable(Tail(s), mode), mode)

\* Array.prototype.sort(comparator): a stable sort (ECMAScript 2019)
RECURSIVE ArraySort(_, _)
ArraySort(s, mode) ==
    IF s = <<>> THEN <<>>
    ELSE InsertSorted(s[Len(s)], ArraySort(SubSeq(s, 1, Len(s) - 1), mode), mode)

\* a sortNotes that sorts its argument in place (no copy)
sortNotesInPlace(arr, mode) ==
    LET sorted == IF mode \in SortModes THEN ArraySort(arr, mode) ELSE arr
    IN  [ret |-> sorted, arg |-> sorted]

\* sortNotes(notes) under this.sortBy = mode.  ret is the returned array, arg
\* the contents of the argument array once the call has returned: the sort
\* works on the copy [...notes], so the argument keeps its contents.
\* a sortNotes that sorts its argument in place, by a sort that is not stable
sortNotesInPlaceUnstable(arr, mode) ==
    LET sorted == IF mode \in SortModes THEN ArraySortUnstable(arr, mode)
                  ELSE arr
    IN  [ret |-> sorted, arg |-> sorted]

sortNotes(arr, mode) ==
    [ret |-> IF mode \in SortModes THEN ArraySort(arr, mode) ELSE arr,
     arg |-> arr]

\* a filter callback that forgets the content
matchesQueryTitleOnly(note, q) == includes(toLowerCase(note.title), q)

\* the predicate of the filter callback in getFilteredNotes
matchesQuery(note, q) ==
    LET titleMatch == includes(toLowerCase(note.title), q)
        contentMatch == includes(toLowerCase(note.content), q)
    IN  titleMatch \/ contentMatch

\* a filter that collects its matches at the front (unshift for push)
RECURSIVE filterNotesUnshift(_, _)
filterNotesUnshift(arr, q) ==
    IF arr = <<>> THEN <<>>
    ELSE filterNotesUnshift(Tail(arr), q)
            \o (IF matchesQuery(Head(arr), q) THEN <<Head(arr)>> ELSE <<>>)

\* Array.prototype.filter with that callback
filterNotes(arr, q) == SelectSeq(arr, LAMBDA n : matchesQuery(n, q))

\* the filter step of getFilteredNotes: this.notes itself when the query is
\* the empty string, a new filtered array otherwise
filterStep(thisNotes, q) ==
    IF q # EmptyString THEN filterNotes(thisNotes, q) ELSE thisNotes

\* getFilteredNotes().  ret is the returned array, thisNotes the contents of
\* this.notes after the call: with an empty query the array handed to
\* sortNotes is this.notes itself.
getFilteredNotes(thisNotes, q, mode) ==
    LET sorted == sortNotes(filterStep(thisNotes, q), mode)
    IN  [ret |-> sorted.ret,
         thisNotes |-> IF q # EmptyString THEN thisNotes ELSE sorted.arg]

(***************************************************************************)
(* Persistence.  JSON.stringify writes the array as one flat text, field   *)
(* after field; JSON.parse cuts the text back into note objects.           *)
(***************************************************************************)
\* what getItem returns when nothing is stored: no text
NoItem == <<"null">>

NoteFields == 5

\* a serialisation that writes the two stamps in each other's place
SerialiseNoteStampsSwapped(n) ==
    <<n.id, n.title, n.content, n.updatedAt, n.createdAt>>

SerialiseNote(n) == <<n.id, n.title, n.content, n.createdAt, n.updatedAt>>

RECURSIVE jsonStringify(_)
jsonStringify(arr) ==
    IF arr = <<>> THEN <<>>
    ELSE SerialiseNote(Head(arr)) \o jsonStringify(Tail(arr))

jsonParse(flat) ==
    [i \in 1..(Len(flat) \div NoteFields) |->
        LET base == (i - 1) * NoteFields
        IN  [id |-> flat[base + 1], title |-> flat[base + 2],
             content |-> flat[base + 3], createdAt |-> flat[base + 4],
             updatedAt |-> flat[base + 5]]]

\* JSON.parse throws a SyntaxError on a text that is no JSON: here, one that
\* does not end with the last field of a note
jsonParseThrows(flat) == Len(flat) % NoteFields # 0

\* loadNotes(): the stored collection, or the empty one when nothing is stored
loadNotes(store) == IF store # NoItem THEN jsonParse(store) ELSE <<>>

(***************************************************************************)
(* The application.  Each action is one event handler run to completion.   *)
(***************************************************************************)
\* null, as currentNoteId holds it
Null == <<>>

Modals == {"noteModal", "deleteModal"}

\* the modal fields as the constructor leaves them
ModalsClosed ==
    /\ currentNoteId = Null
    /\ activeModals = {}
    /\ openedFor = [m \in Modals |-> Null]

AppTitles == {<<"a">>, <<"C">>}
AppContents == {<<"b">>}
SearchInputs == {<<>>, <<" ">>, <<"A", "b", " ">>, <<" ", "C">>}
RandomValues == 0..(MaxRandom - 1)

\* the instants a clock read may return: the clock never runs backwards
ClockReads(t) == {u \in Instants : u >= t}

\* generateId(): the time of the call followed by the random digits
generateId(t, r) == <<t, r>>

\* the value handleSearch stores for the content v of the search box
handleSearchValue(v) == toLowerCase(trim(v))

\* Array.prototype.find(n => n.id === id): the index of the first such note,
\* 0 when there is none
FindIndex(arr, id) ==
    IF \E i \in 1..Len(arr) : arr[i].id = id
    THEN CHOOSE i \in 1..Len(arr) :
            /\ arr[i].id = id
            /\ \A j \in 1..(i - 1) : arr[j].id # id
    ELSE 0

\* renderNotes(): the cards of getFilteredNotes() replace the container
renderNotes(thisNotes) ==
    LET r == getFilteredNotes(thisNotes, searchQuery, sortBy)
    IN  /\ rendered' = r.ret
        /\ notes' = r.thisNotes

\* saveNotes() then renderNotes(), as the three mutating operations end.
\* localStorage.setItem throws when the quota is exceeded: the handler then
\* stops there, with this.notes changed and nothing rendered.
saveAndRender(thisNotes, saved) ==
    IF saved
    THEN /\ storage' = jsonStringify(thisNotes)
         /\ renderNotes(thisNotes)
         /\ UNCHANGED saveFailures
    ELSE /\ saveFailures < MaxSaveFailures
         /\ saveFailures' = saveFailures + 1
         /\ notes' = thisNotes
         /\ UNCHANGED <<storage, rendered>>

createNote(title, content) ==
    /\ pc = "app"
    /\ Len(notes) < MaxNotes
    /\ \E t0 \in ClockReads(now), r \in RandomValues, saved \in BOOLEAN :
        \E t1 \in ClockReads(t0) :
        \E t2 \in ClockReads(t1) :
            LET note == [id |-> generateId(t0, r), title |-> title,
                         content |-> content,
                         createdAt |-> toISOString(t1),
                         updatedAt |-> toISOString(t2)]
            IN  /\ now' = t2
                /\ saveAndRender(<<note>> \o notes, saved)
    /\ UNCHANGED <<searchQuery, sortBy, pc, text, query, markup>>

\* an updateNote that stamps createdAt as well
updateNoteRestamps(id, title, content) ==
    /\ pc = "app"
    /\ LET i == FindIndex(notes, id)
       IN  IF i # 0
           THEN \E t \in ClockReads(now), saved \in BOOLEAN :
                    /\ now' = t
                    /\ saveAndRender(
                          [notes EXCEPT ![i].title = title,
                                        ![i].content = content,
                                        ![i].createdAt = toISOString(t),
                                        ![i].updatedAt = toISOString(t)],
                          saved)
           ELSE UNCHANGED <<notes, storage, rendered, now, saveFailures>>
    /\ UNCHANGED <<searchQuery, sortBy, pc, text, query, markup>>

updateNote(id, title, content) ==
    /\ pc = "app"
    /\ LET i == FindIndex(notes, id)
       IN  IF i # 0
           THEN \E t \in ClockReads(now), saved \in BOOLEAN :
                    /\ now' = t
                    /\ saveAndRender(
                          [notes EXCEPT ![i].title = title,
                                        ![i].content = content,
                                        ![i].updatedAt = toISOString(t)],
                          saved)
           ELSE UNCHANGED <<notes, storage, rendered, now, saveFailures>>
    /\ UNCHANGED <<searchQuery, sortBy, pc, text, query, markup>>

deleteNote(id) ==
    /\ pc = "app"
    /\ \E saved \in BOOLEAN :
          saveAndRender(SelectSeq(notes, LAMBDA n : n.id # id), saved)
    /\ UNCHANGED <<searchQuery, sortBy, now, pc, text, query, markup>>

handleSearch(v) ==
    /\ pc = "app"
    /\ searchQuery' = handleSearchValue(v)
    /\ LET r == getFilteredNotes(notes, searchQuery', sortBy)
       IN  /\ rendered' = r.ret
           /\ notes' = r.thisNotes
    /\ UNCHANGED <<sortBy, storage, now, saveFailures, pc, text, query, markup>>
    /\ UNCHANGED modalVars

clearSearch ==
    /\ pc = "app"
    /\ searchQuery' = EmptyString
    /\ LET r == getFilteredNotes(notes, searchQuery', sortBy)
       IN  /\ rendered' = r.ret
           /\ notes' = r.thisNotes
    /\ UNCHANGED <<sortBy, storage, now, saveFailures, pc, text, query, markup>>
    /\ UNCHANGED modalVars

handleSort(v) ==
    /\ pc = "app"
    /\ sortBy' = v
    /\ LET r == getFilteredNotes(notes, searchQuery, sortBy')
       IN  /\ rendered' = r.ret
           /\ notes' = r.thisNotes
    /\ UNCHANGED <<searchQuery, storage, now, saveFailures, pc, text, query, markup>>
    /\ UNCHANGED modalVars

\* the ids an event may name: those of the collection and one of no note
KnownIds == {notes[i].id : i \in 1..Len(notes)}
NoSuchId == generateId(0, 0)

\* new NotesApp() on an empty store: constructor, loadNotes, first render
Init ==
    /\ storage = NoItem
    /\ notes = loadNotes(NoItem)
    /\ searchQuery = EmptyString
    /\ sortBy = "dateDesc"
    /\ rendered = <<>>
    /\ now \in Instants
    /\ saveFailures = 0
    /\ pc = "app"
    /\ text = <<>>
    /\ query = <<>>
    /\ markup = <<>>
    /\ ModalsClosed

Next ==
    \/ \E title \in AppTitles, content \in AppContents :
            createNote(title, content) /\ UNCHANGED modalVars
    \/ \E id \in KnownIds \cup {NoSuchId}, title \in AppTitles,
           content \in AppContents :
            updateNote(id, title, content) /\ UNCHANGED modalVars
    \/ \E id \in KnownIds \cup {NoSuchId} :
            deleteNote(id) /\ UNCHANGED modalVars
    \/ \E v \in SearchInputs : handleSearch(v)
    \/ clearSearch
    \/ \E v \in SortModes : handleSort(v)

Spec == Init /\ [][Next]_vars

\* the three operations on the collection alone, search box and sort
\* selector left as they are at the start
CrudNext ==
    \/ \E title \in AppTitles, content \in AppContents :
            createNote(title, content) /\ UNCHANGED modalVars
    \/ \E id \in KnownIds \cup {NoSuchId}, title \in AppTitles,
           content \in AppContents :
            updateNote(id, title, content) /\ UNCHANGED modalVars
    \/ \E id \in KnownIds \cup {NoSuchId} :
            deleteNote(id) /\ UNCHANGED modalVars

CrudSpec == Init /\ [][CrudNext]_vars

\* the same operations while the store accepts every write
SavedNext == CrudNext /\ saveFailures' = saveFailures

SavedSpec == Init /\ [][SavedNext]_vars

(***************************************************************************)
(* The two modals.  Both keep the note they are about in the one field     *)
(* currentNoteId.  Handlers run one after the other, in any order.         *)
(***************************************************************************)
appVars == <<notes, searchQuery, sortBy, rendered, storage, now, saveFailures,
             pc, text, query, markup>>

\* what the user may have in the form when it is submitted
FormTitles == AppTitles \cup {<<" ">>}
FormContents == AppContents

\* openNoteModal(noteId = null)
openNoteModal(noteId) ==
    /\ pc = "app"
    /\ currentNoteId' = noteId
    /\ activeModals' = activeModals \cup {"noteModal"}
    /\ openedFor' = [openedFor EXCEPT !["noteModal"] = noteId]
    /\ UNCHANGED appVars

\* closeNoteModal(), on the fields of the modals
closeNoteModal ==
    /\ activeModals' = activeModals \ {"noteModal"}
    /\ currentNoteId' = Null
    /\ UNCHANGED openedFor

\* openDeleteModal(noteId)
openDeleteModal(noteId) ==
    /\ pc = "app"
    /\ currentNoteId' = noteId
    /\ activeModals' = activeModals \cup {"deleteModal"}
    /\ openedFor' = [openedFor EXCEPT !["deleteModal"] = noteId]
    /\ UNCHANGED appVars

\* closeDeleteModal(), on the fields of the modals
closeDeleteModal ==
    /\ activeModals' = activeModals \ {"deleteModal"}
    /\ currentNoteId' = Null
    /\ UNCHANGED openedFor

\* a click on the close or cancel button of the note modal, or beside it
clickCloseNoteModal ==
    /\ pc = "app"
    /\ closeNoteModal
    /\ UNCHANGED appVars

\* a click on the close or cancel button of the delete modal, or beside it
clickCloseDeleteModal ==
    /\ pc = "app"
    /\ closeDeleteModal
    /\ UNCHANGED appVars

\* confirmDelete(): when saveNotes throws inside deleteNote the modal is not
\* closed
confirmDelete ==
    /\ pc = "app"
    /\ IF currentNoteId # Null
       THEN /\ deleteNote(currentNoteId)
            /\ IF saveFailures' = saveFailures
               THEN closeDeleteModal
               ELSE UNCHANGED modalVars
       ELSE UNCHANGED vars

\* handleSubmit(e) with the form holding titleValue and contentValue: when
\* saveNotes throws inside the operation the modal is not closed
handleSubmit(titleValue, contentValue) ==
    LET title == trim(titleValue)
        content == trim(contentValue)
    IN  /\ pc = "app"
        /\ IF title = EmptyString \/ content = EmptyString
           THEN UNCHANGED vars
           ELSE /\ IF currentNoteId # Null
                   THEN updateNote(currentNoteId, title, content)
                   ELSE createNote(title, content)
                /\ IF saveFailures' = saveFailures
                   THEN closeNoteModal
                   ELSE UNCHANGED modalVars

ModalNext ==
    \/ \E noteId \in KnownIds \cup {Null} : openNoteModal(noteId)
    \/ \E noteId \in KnownIds : openDeleteModal(noteId)
    \/ clickCloseNoteModal
    \/ clickCloseDeleteModal
    \/ confirmDelete
    \/ \E titleValue \in FormTitles, contentValue \in FormContents :
            handleSubmit(titleValue, contentValue)

ModalSpec == Init /\ [][ModalNext]_vars

(***************************************************************************)
(* The query engine on its own: a collection, a stored query and a sort    *)
(* mode are drawn, and getFilteredNotes() runs on them once.               *)
(***************************************************************************)
InputTitles == {<<"a">>, <<"A">>, <<"A", "b">>, <<"C">>}
InputContents == {<<"a", "c", "b">>, <<"b", "a">>}
InputNotes ==
    [title : InputTitles, content : InputContents,
     createdAt : {toISOString(t) : t \in Instants}]

\* the collection of the notes f[1], ..., f[n], ids distinct
InputCollection(f, n) ==
    [i \in 1..n |->
        [id |-> generateId(0, i), title |-> f[i].title,
         content |-> f[i].content, createdAt |-> f[i].createdAt,
         updatedAt |-> f[i].createdAt]]

StoredQueries == {handleSearchValue(v) : v \in SearchInputs}

QueryInit ==
    /\ \E n \in 0..MaxInput :
          \E f \in [1..n -> InputNotes] : notes = InputCollection(f, n)
    /\ searchQuery \in StoredQueries
    /\ sortBy \in SortModes
    /\ rendered = <<>>
    /\ storage = NoItem
    /\ now = 1000
    /\ saveFailures = 0
    /\ pc = "input"
    /\ text = <<>>
    /\ query = <<>>
    /\ markup = <<>>
    /\ ModalsClosed

RunQuery ==
    /\ pc = "input"
    /\ renderNotes(notes)
    /\ pc' = "output"
    /\ UNCHANGED <<searchQuery, sortBy, storage, now, saveFailures, text, query,
                   markup>>
    /\ UNCHANGED modalVars

QueryNext == RunQuery

QuerySpec == QueryInit /\ [][QueryNext]_vars

\* the same query run a second time on the state the first run left
RunQueryAgain ==
    /\ pc = "output"
    /\ renderNotes(notes)
    /\ pc' = "again"
    /\ UNCHANGED <<searchQuery, sortBy, storage, now, saveFailures, text, query,
                   markup>>
    /\ UNCHANGED modalVars

RequeryNext == RunQuery \/ RunQueryAgain

RequerySpec == QueryInit /\ [][RequeryNext]_vars

(***************************************************************************)
(* Notes whose title or content is no text (a note object read from the    *)
(* store without the field).  The value undefined is written as a sequence *)
(* holding one token that is no character.                                 *)
(***************************************************************************)
Undefined == <<"undefined">>

IsText(v) == v # Undefined

IsMalformed(note) == ~IsText(note.title) \/ ~IsText(note.content)

\* the filter callback evaluates note.title.toLowerCase() and
\* note.content.toLowerCase() for every note: a TypeError on undefined
filterThrows(thisNotes, q) ==
    /\ q # EmptyString
    /\ \E i \in 1..Len(thisNotes) : IsMalformed(thisNotes[i])

\* the title comparators evaluate a.title.toLowerCase() and
\* b.title.toLowerCase(); sort calls its comparator when it has two elements
\* or more, on each of them
sortThrows(arr, mode) ==
    /\ mode \in {"titleAsc", "titleDesc"}
    /\ Len(arr) >= 2
    /\ \E i \in 1..Len(arr) : ~IsText(arr[i].title)

\* getFilteredNotes on such a collection: what it throws, if it throws
getFilteredNotesThrows(thisNotes, q, mode) ==
    \/ filterThrows(thisNotes, q)
    \/ sortThrows(filterStep(thisNotes, q), mode)

MaybeTitles == {<<"a">>, <<"C">>, Undefined}
MaybeContents == {<<"b", "a">>, Undefined}
MaybeNotes ==
    [title : MaybeTitles, content : MaybeContents,
     createdAt : {toISOString(t) : t \in Instants}]

MalformedInit ==
    /\ \E n \in 0..MaxInput :
          \E f \in [1..n -> MaybeNotes] : notes = InputCollection(f, n)
    /\ searchQuery \in StoredQueries
    /\ sortBy \in SortModes
    /\ rendered = <<>>
    /\ storage = NoItem
    /\ now = 1000
    /\ saveFailures = 0
    /\ pc = "input"
    /\ text = <<>>
    /\ query = <<>>
    /\ markup = <<>>
    /\ ModalsClosed

\* the query returns
RunQueryReturns ==
    /\ pc = "input"
    /\ ~getFilteredNotesThrows(notes, searchQuery, sortBy)
    /\ renderNotes(notes)
    /\ pc' = "output"
    /\ UNCHANGED <<searchQuery, sortBy, storage, now, saveFailures, text, query,
                   markup>>
    /\ UNCHANGED modalVars

\* the query throws from inside the filter or the sort
RunQueryThrows ==
    /\ pc = "input"
    /\ getFilteredNotesThrows(notes, searchQuery, sortBy)
    /\ pc' = "TypeError"
    /\ UNCHANGED <<notes, rendered, searchQuery, sortBy, storage, now,
                   saveFailures, text, query, markup>>
    /\ UNCHANGED modalVars

MalformedNext == RunQueryReturns \/ RunQueryThrows

MalformedSpec == MalformedInit /\ [][MalformedNext]_vars

(***************************************************************************)
(* The highlighter.  Markup is a sequence of characters and of the two     *)
(* markers the replacement string puts around a match.                     *)
(***************************************************************************)
OpenMark == "<span class=\"highlight\">"
CloseMark == "</span>"

NoBreakSpace == "nbsp"      \* the character U+00A0

\* a serialisation that leaves the ampersand as it is
EscapeCharKeepsAmpersand(c) ==
    CASE c = "<" -> <<"&", "l", "t", ";">>
      [] c = ">" -> <<"&", "g", "t", ";">>
      [] OTHER -> <<c>>

\* how the HTML fragment serialisation writes one character of a text node
EscapeChar(c) ==
    CASE c = "&" -> <<"&", "a", "m", "p", ";">>
      [] c = "<" -> <<"&", "l", "t", ";">>
      [] c = ">" -> <<"&", "g", "t", ";">>
      [] c = NoBreakSpace -> <<"&", "n", "b", "s", "p", ";">>
      [] OTHER -> <<c>>

\* escapeHtml(text): div.textContent = text; return div.innerHTML
\* (character by character; computed half by half, to keep the evaluation
\* of a long text shallow)
RECURSIVE escapeHtml(_)
escapeHtml(s) ==
    IF s = <<>> THEN <<>>
    ELSE IF Len(s) = 1 THEN EscapeChar(s[1])
    ELSE escapeHtml(SubSeq(s, 1, Len(s) \div 2))
            \o escapeHtml(SubSeq(s, Len(s) \div 2 + 1, Len(s)))

\* the characters escapeRegex puts a backslash in front of
RegexMeta == {".", "*", "+", "?", "^", "$", "{", "}", "(", ")", "|", "[", "]", "\\"}

\* an escapeRegex that escapes nothing
escapeRegexNothing(s) == s

\* escapeRegex(str)
RECURSIVE escapeRegex(_)
escapeRegex(s) ==
    IF s = <<>> THEN <<>>
    ELSE (IF Head(s) \in RegexMeta THEN <<"\\", Head(s)>> ELSE <<Head(s)>>)
            \o escapeRegex(Tail(s))

\* new RegExp(source): the atoms of a pattern of characters, escaped
\* characters and dots
RECURSIVE RegExpAtoms(_)
RegExpAtoms(p) ==
    IF p = <<>> THEN <<>>
    ELSE IF Head(p) = "\\" /\ Len(p) >= 2
         THEN <<[any |-> FALSE, ch |-> p[2]]>> \o RegExpAtoms(Tail(Tail(p)))
         ELSE IF Head(p) = "."
              THEN <<[any |-> TRUE, ch |-> "."]>> \o RegExpAtoms(Tail(p))
              ELSE <<[any |-> FALSE, ch |-> Head(p)]>> \o RegExpAtoms(Tail(p))

\* Canonicalize under the i flag: the upper-case form of the character
Canonicalize(c) ==
    CASE c = "a" -> "A"
      [] c = "b" -> "B"
      [] c = "c" -> "C"
      [] OTHER -> c

AtomMatches(atom, c) == atom.any \/ Canonicalize(atom.ch) = Canonicalize(c)

\* the pattern matches s from position i on
MatchesAt(atoms, s, i) ==
    /\ i + Len(atoms) - 1 <= Len(s)
    /\ \A k \in 1..Len(atoms) : AtomMatches(atoms[k], s[i + k - 1])

\* a replace without the g flag: the first match alone
RECURSIVE replaceFirst(_, _, _)
replaceFirst(s, atoms, i) ==
    IF i > Len(s) THEN <<>>
    ELSE IF atoms # <<>> /\ MatchesAt(atoms, s, i)
         THEN <<OpenMark>> \o SubSeq(s, i, i + Len(atoms) - 1) \o <<CloseMark>>
                \o SubSeq(s, i + Len(atoms), Len(s))
         ELSE <<s[i]>> \o replaceFirst(s, atoms, i + 1)

\* String.prototype.replace with a global pattern and '<span ...>$1</span>':
\* from position i on, leftmost matches first, the search resuming behind
\* each match
RECURSIVE replaceAll(_, _, _)
replaceAll(s, atoms, i) ==
    LET hits == {p \in i..Len(s) : atoms # <<>> /\ MatchesAt(atoms, s, p)}
    IN  IF hits = {} THEN SubSeq(s, i, Len(s))
        ELSE LET p == CHOOSE p \in hits : \A r \in hits : p <= r
             IN  SubSeq(s, i, p - 1)
                    \o <<OpenMark>> \o SubSeq(s, p, p + Len(atoms) - 1)
                    \o <<CloseMark>> \o replaceAll(s, atoms, p + Len(atoms))

\* a highlightText that searches the text as it is and escapes nothing
highlightTextUnescaped(t, q) ==
    IF q = EmptyString
    THEN escapeHtml(t)
    ELSE replaceAll(t, RegExpAtoms(escapeRegex(q)), 1)

\* highlightText(text, query)
highlightText(t, q) ==
    IF q = EmptyString
    THEN escapeHtml(t)
    ELSE LET escapedText == escapeHtml(t)
             escapedQuery == escapeRegex(q)
             regex == RegExpAtoms(escapedQuery)
         IN  replaceAll(escapedText, regex, 1)

(***************************************************************************)
(* The highlighter on its own: a text and a query are drawn and            *)
(* highlightText runs on them once.                                        *)
(***************************************************************************)
TextChars == {"a", "A", "b", "&", "<", ">", "\"", "'", "."}

TextsUpTo(n) == UNION {[1..k -> TextChars] : k \in 0..n}

HighlightQueries ==
    {<<>>, <<"a">>, <<"&">>, <<"<">>, <<".">>, <<"a", "a">>, <<"a", "&">>,
     <<"a", "m", "p">>}

HighlightInit ==
    /\ text \in TextsUpTo(MaxTextLen)
    /\ query \in HighlightQueries
    /\ markup = <<>>
    /\ pc = "text"
    /\ notes = <<>>
    /\ searchQuery = EmptyString
    /\ sortBy = "dateDesc"
    /\ rendered = <<>>
    /\ storage = NoItem
    /\ now = 1000
    /\ saveFailures = 0
    /\ ModalsClosed

RunHighlight ==
    /\ pc = "text"
    /\ markup' = highlightText(text, query)
    /\ pc' = "marked"
    /\ UNCHANGED <<notes, searchQuery, sortBy, rendered, storage, now,
                   saveFailures, text, query>>
    /\ UNCHANGED modalVars

HighlightNext == RunHighlight

HighlightSpec == HighlightInit /\ [][HighlightNext]_vars

(***************************************************************************)
(* The note card.  createNoteCard cuts the content to a preview, then      *)
(* highlights title and preview under the stored query.                    *)
(***************************************************************************)
PreviewLength == 200
Ellipsis == <<".", ".", ".">>
MaxTailLen == 4     \* characters of a content around the preview boundary

\* previewContent in createNoteCard
previewContent(content) ==
    IF Len(content) > PreviewLength
    THEN SubSeq(content, 1, PreviewLength) \o Ellipsis
    ELSE content

\* createNoteCard(note): the parts of the card computed from the note
createNoteCard(note, thisSearchQuery) ==
    [title |-> highlightText(note.title, thisSearchQuery),
     content |-> highlightText(previewContent(note.content), thisSearchQuery),
     isEdited |-> note.createdAt # note.updatedAt]

\* contents that end shortly before or behind the preview boundary
Filler(n) == [i \in 1..n |-> "x"]
TailChars == {"a", ".", "&"}
TailsUpTo(n) == UNION {[1..k -> TailChars] : k \in 0..n}
CardContents == {Filler(PreviewLength - 2) \o w : w \in TailsUpTo(MaxTailLen)}
CardQueries == {<<>>, <<"a">>, <<".">>, <<"a", ".">>, <<"x", "a">>}

CardInit ==
    /\ \E c \in CardContents :
          notes = <<[id |-> generateId(0, 1), title |-> <<"a">>, content |-> c,
                     createdAt |-> toISOString(1000),
                     updatedAt |-> toISOString(1000)]>>
    /\ searchQuery \in CardQueries
    /\ markup = <<>>
    /\ pc = "note"
    /\ text = <<>>
    /\ query = <<>>
    /\ sortBy = "dateDesc"
    /\ rendered = <<>>
    /\ storage = NoItem
    /\ now = 1000
    /\ saveFailures = 0
    /\ ModalsClosed

RunCard ==
    /\ pc = "note"
    /\ markup' = createNoteCard(notes[1], searchQuery)
    /\ pc' = "card"
    /\ UNCHANGED <<notes, searchQuery, sortBy, rendered, storage, now,
                   saveFailures, text, query>>
    /\ UNCHANGED modalVars

CardNext == RunCard

CardSpec == CardInit /\ [][CardNext]_vars

(***************************************************************************)
(* Start-up.  new NotesApp() sets the fields, then init() loads the stored *)
(* notes, attaches the listeners and renders for the first time.           *)
(***************************************************************************)
InvalidJson == <<"invalid-json">>

\* a stored text that lost its end
Truncated(flat) == SubSeq(flat, 1, Len(flat) - 1)

\* what the store may hold when the page is opened
StoredCollections ==
    UNION {{InputCollection(f, n) : f \in [1..n -> InputNotes]} :
              n \in 0..MaxNotes}
StoredTexts ==
    {NoItem, InvalidJson}
        \cup {jsonStringify(c) : c \in StoredCollections}
        \cup {Truncated(jsonStringify(c)) : c \in StoredCollections \ {<<>>}}

StartInit ==
    /\ storage \in StoredTexts
    /\ notes = <<>>
    /\ searchQuery = EmptyString
    /\ sortBy = "dateDesc"
    /\ rendered = <<>>
    /\ now = 1000
    /\ saveFailures = 0
    /\ pc = "new"
    /\ text = <<>>
    /\ query = <<>>
    /\ markup = <<>>
    /\ ModalsClosed

\* init() runs to its end: the listeners are attached, the notes rendered
initCompletes ==
    /\ pc = "new"
    /\ ~(storage # NoItem /\ jsonParseThrows(storage))
    /\ renderNotes(loadNotes(storage))
    /\ pc' = "app"
    /\ UNCHANGED <<searchQuery, sortBy, storage, now, saveFailures, text, query,
                   markup>>
    /\ UNCHANGED modalVars

\* JSON.parse throws inside loadNotes(): init() stops there
initThrows ==
    /\ pc = "new"
    /\ storage # NoItem
    /\ jsonParseThrows(storage)
    /\ pc' = "SyntaxError"
    /\ UNCHANGED <<notes, rendered, searchQuery, sortBy, storage, now,
                   saveFailures, text, query, markup>>
    /\ UNCHANGED modalVars

StartNext == initCompletes \/ initThrows

StartSpec == StartInit /\ [][StartNext]_vars

(***************************************************************************)
(* Properties.                                                             *)
(***************************************************************************)
Range(s) == {s[i] : i \in 1..Len(s)}

\* q occurs in s as a contiguous run of characters
HasSubstring(s, q) ==
    \E i \in 0..Len(s), j \in 0..Len(s) : i <= j /\ SubSeq(s, i + 1, j) = q

\* a is b with some elements left out, the others in b's order
RECURSIVE IsSubsequence(_, _)
IsSubsequence(a, b) ==
    IF a = <<>> THEN TRUE
    ELSE IF b = <<>> THEN FALSE
    ELSE IF Head(a) = Head(b) THEN IsSubsequence(Tail(a), Tail(b))
    ELSE IsSubsequence(a, Tail(b))

\* s without the first occurrence of x
RECURSIVE RemoveOne(_, _)
RemoveOne(x, s) ==
    IF s = <<>> THEN <<>>
    ELSE IF Head(s) = x THEN Tail(s)
    ELSE <<Head(s)>> \o RemoveOne(x, Tail(s))

\* a and b hold the same elements, each as many times
RECURSIVE IsPermutation(_, _)
IsPermutation(a, b) ==
    IF a = <<>> THEN b = <<>>
    ELSE /\ \E i \in 1..Len(b) : b[i] = Head(a)
         /\ IsPermutation(Tail(a), RemoveOne(Head(a), b))

\* the note passes the filter as the specification states it
PassesFilter(n, q) ==
    \/ q = EmptyString
    \/ HasSubstring(toLowerCase(n.title), q)
    \/ HasSubstring(toLowerCase(n.content), q)

\* C1: a note of the collection is in the result of getFilteredNotes if and
\* only if the stored query is empty or occurs, as a contiguous substring, in
\* the lower-cased title or in the lower-cased content of the note.
C1_FilterCorrect ==
    pc = "output" =>
        \A i \in 1..Len(notes) :
            (notes[i] \in Range(rendered)) <=> PassesFilter(notes[i], searchQuery)

\* a note is kept for its title alone, the next one dropped, under a query
\* that the title matches only after case folding
C1_Witness ==
    /\ pc = "output"
    /\ searchQuery = <<"c">>
    /\ Len(notes) = 2
    /\ notes[1].title = <<"C">> /\ notes[1].content = <<"b", "a">>
    /\ notes[2].title = <<"a">> /\ notes[2].content = <<"b", "a">>
    /\ rendered = <<notes[1]>>

\* C2: what the filter step selects is a subsequence of the collection: only
\* notes of the collection, none twice, in the collection's order.
C2_FilterSubsequence ==
    pc = "output" => IsSubsequence(filterStep(notes, searchQuery), notes)

\* a filter that drops the middle note of three and keeps the outer two
C2_Witness ==
    /\ pc = "output"
    /\ searchQuery # EmptyString
    /\ Len(notes) = 3
    /\ filterStep(notes, searchQuery) = <<notes[1], notes[3]>>

\* C3: the result of getFilteredNotes is sortNotes of the filtered notes, and
\* in every sort mode (each is the sortBy of some state) a permutation of
\* exactly the notes the filter passes.
C3_SortKeepsMembers ==
    pc = "output" =>
        /\ rendered = sortNotes(filterStep(notes, searchQuery), sortBy).ret
        /\ IsPermutation(rendered, filterStep(notes, searchQuery))

\* a filtered result of two notes with equal keys that the sort reordered
\* relative to a third
C3_Witness ==
    /\ pc = "output"
    /\ searchQuery # EmptyString
    /\ Len(notes) = 3
    /\ Len(rendered) = 2
    /\ rendered # filterStep(notes, searchQuery)
    /\ sortBy = "titleAsc"

\* C4: once an event handler has completed, the rendered list is the query
\* result of the current collection, the current searchQuery and the current
\* sortBy.
C4_RenderedIsCurrent ==
    pc = "app" => rendered = getFilteredNotes(notes, searchQuery, sortBy).ret

\* C5: the query engine leaves this.notes as it was: the same notes in the
\* same order with the same field values, in every sort mode and for every
\* query; what it returns is another sequence.
C5_NotesUntouched ==
    [][/\ notes' = notes
       /\ \A m \in SortModes : sortNotes(notes, m).arg = notes]_vars

\* an empty query (sortNotes is handed this.notes itself) and a result in
\* another order than the collection
C5_Witness ==
    /\ pc = "output"
    /\ searchQuery = EmptyString
    /\ Len(notes) = 3
    /\ rendered # notes
    /\ IsPermutation(rendered, notes)

\* the instant an ISO timestamp denotes
InstantOf(iso) == CHOOSE t \in Instants : toISOString(t) = iso

Adjacent(s) == 1..(Len(s) - 1)

\* C6: in mode dateDesc every adjacent pair of the result has the earlier
\* element created at the same instant or later, in mode dateAsc at the same
\* instant or earlier; the instants are compared exactly.
C6_DateOrder ==
    pc = "output" =>
        /\ sortBy = "dateDesc" =>
              \A i \in Adjacent(rendered) :
                  InstantOf(rendered[i].createdAt)
                      >= InstantOf(rendered[i + 1].createdAt)
        /\ sortBy = "dateAsc" =>
              \A i \in Adjacent(rendered) :
                  InstantOf(rendered[i].createdAt)
                      <= InstantOf(rendered[i + 1].createdAt)

\* newest first moved a note created one millisecond later, in the next
\* second, to the front
C6_Witness ==
    /\ pc = "output"
    /\ sortBy = "dateDesc"
    /\ searchQuery = EmptyString
    /\ Len(notes) = 3
    /\ InstantOf(notes[1].createdAt) = 999
    /\ InstantOf(notes[2].createdAt) = 999
    /\ InstantOf(notes[3].createdAt) = 1000
    /\ rendered = <<notes[3], notes[1], notes[2]>>

\* the place of a letter in the alphabet, whatever its case
LetterIndex(c) ==
    CASE c \in {"a", "A"} -> 1
      [] c \in {"b", "B"} -> 2
      [] c \in {"c", "C"} -> 3
      [] OTHER -> 0

\* s comes no later than t in alphabetical order ignoring case
RECURSIVE AlphaLeq(_, _)
AlphaLeq(s, t) ==
    IF s = <<>> THEN TRUE
    ELSE IF t = <<>> THEN FALSE
    ELSE IF LetterIndex(Head(s)) < LetterIndex(Head(t)) THEN TRUE
    ELSE IF LetterIndex(Head(s)) > LetterIndex(Head(t)) THEN FALSE
    ELSE AlphaLeq(Tail(s), Tail(t))

TitlesOf(s) == [i \in 1..Len(s) |-> s[i].title]

\* C7: in mode titleAsc the result is in alphabetical order of the titles
\* ignoring case, in mode titleDesc in the reverse of that order.
C7_TitleOrder ==
    pc = "output" =>
        /\ sortBy = "titleAsc" =>
              \A i \in Adjacent(rendered) :
                  AlphaLeq(rendered[i].title, rendered[i + 1].title)
        /\ sortBy = "titleDesc" =>
              \A i \in Adjacent(rendered) :
                  AlphaLeq(rendered[i + 1].title, rendered[i].title)

\* titles Ab, a, C come out as a, Ab, C
C7_Witness ==
    /\ pc = "output"
    /\ sortBy = "titleAsc"
    /\ searchQuery = EmptyString
    /\ TitlesOf(notes) = << <<"A", "b">>, <<"a">>, <<"C">> >>
    /\ TitlesOf(rendered) = << <<"a">>, <<"A", "b">>, <<"C">> >>

\* the key two notes are compared by in a mode
SortKey(mode, n) ==
    IF mode \in {"dateDesc", "dateAsc"}
    THEN InstantOf(n.createdAt)
    ELSE toLowerCase(n.title)

PositionIn(s, n) == CHOOSE i \in 1..Len(s) : s[i] = n

\* C8: in every sort mode two notes with equal keys are in the result in the
\* relative order they have in the sequence that was sorted.
C8_SortStable ==
    pc = "output" =>
        LET filtered == filterStep(notes, searchQuery)
        IN  \A i \in 1..Len(rendered), j \in 1..Len(rendered) :
                (i < j /\ SortKey(sortBy, rendered[i]) = SortKey(sortBy, rendered[j]))
                    => PositionIn(filtered, rendered[i])
                         < PositionIn(filtered, rendered[j])

\* titles a, C, A: the tie a / A stays in input order although C moved
C8_Witness ==
    /\ pc = "output"
    /\ sortBy = "titleAsc"
    /\ searchQuery = EmptyString
    /\ TitlesOf(notes) = << <<"a">>, <<"C">>, <<"A">> >>
    /\ rendered = <<notes[1], notes[3], notes[2]>>

Reverse(s) == [i \in 1..Len(s) |-> s[Len(s) + 1 - i]]

NoTitleTies(s) ==
    \A i \in 1..Len(s), j \in 1..Len(s) :
        i # j => toLowerCase(s[i].title) # toLowerCase(s[j].title)

\* C9: for a sequence without two titles equal up to case, the titleAsc
\* result reversed is the titleDesc result.
C9_TitleDescIsReverse ==
    (pc = "output" /\ NoTitleTies(notes)) =>
        /\ Reverse(sortNotes(notes, "titleAsc").ret)
              = sortNotes(notes, "titleDesc").ret
        /\ sortBy = "titleDesc" =>
              rendered = Reverse(sortNotes(filterStep(notes, searchQuery),
                                           "titleAsc").ret)

\* three notes with three different titles, shown in titleDesc order
C9_Witness ==
    /\ pc = "output"
    /\ sortBy = "titleDesc"
    /\ searchQuery = EmptyString
    /\ NoTitleTies(notes)
    /\ TitlesOf(notes) = << <<"A", "b">>, <<"a">>, <<"C">> >>
    /\ TitlesOf(rendered) = << <<"C">>, <<"A", "b">>, <<"a">> >>

Entities ==
    {<<"&", "a", "m", "p", ";">>, <<"&", "l", "t", ";">>, <<"&", "g", "t", ";">>,
     <<"&", "q", "u", "o", "t", ";">>, <<"&", "#", "3", "9", ";">>,
     <<"&", "n", "b", "s", "p", ";">>}

\* the ampersand at position i of s begins an entity
BeginsEntity(s, i) ==
    \E e \in Entities : i + Len(e) - 1 <= Len(s) /\ SubSeq(s, i, i + Len(e) - 1) = e

\* what a browser reads back from escaped text
RECURSIVE HtmlDecode(_)
HtmlDecode(s) ==
    IF s = <<>> THEN <<>>
    ELSE IF Len(s) >= 5 /\ SubSeq(s, 1, 5) = <<"&", "a", "m", "p", ";">>
         THEN <<"&">> \o HtmlDecode(SubSeq(s, 6, Len(s)))
    ELSE IF Len(s) >= 4 /\ SubSeq(s, 1, 4) = <<"&", "l", "t", ";">>
         THEN <<"<">> \o HtmlDecode(SubSeq(s, 5, Len(s)))
    ELSE IF Len(s) >= 4 /\ SubSeq(s, 1, 4) = <<"&", "g", "t", ";">>
         THEN <<">">> \o HtmlDecode(SubSeq(s, 5, Len(s)))
    ELSE <<Head(s)>> \o HtmlDecode(Tail(s))

QuoteChars == {"\"", "'"}

NoLiteralMarkupChars(s) ==
    \A i \in 1..Len(s) :
        /\ s[i] \notin {"<", ">"}
        /\ s[i] = "&" => BeginsEntity(s, i)

Markers == {OpenMark, CloseMark}

RemoveMarkers(m) == SelectSeq(m, LAMBDA c : c \notin Markers)

\* the markers of m come in pairs: an opening one, then a closing one
Balanced(m) ==
    LET marks == SelectSeq(m, LAMBDA c : c \in Markers)
    IN  /\ Len(marks) % 2 = 0
        /\ \A k \in 1..Len(marks) :
              marks[k] = IF k % 2 = 1 THEN OpenMark ELSE CloseMark

\* the place in m of its k-th marker; 0 before the first, behind m after
\* the last
MarkerAt(m, k) ==
    LET places == {i \in 1..Len(m) : m[i] \in Markers}
    IN  IF k = 0 THEN 0
        ELSE IF k > Cardinality(places) THEN Len(m) + 1
        ELSE CHOOSE i \in places : Cardinality({j \in places : j <= i}) = k

\* the runs of characters between the markers of m, in order: in balanced
\* markup the runs at even places are the highlighted ones
Runs(m) ==
    [k \in 1..(Cardinality({i \in 1..Len(m) : m[i] \in Markers}) + 1) |->
        SubSeq(m, MarkerAt(m, k - 1) + 1, MarkerAt(m, k) - 1)]

RECURSIVE TotalLen(_)
TotalLen(runs) == IF runs = <<>> THEN 0 ELSE Len(Head(runs)) + TotalLen(Tail(runs))

\* where run k begins in the markup without its markers
RunStart(runs, k) == 1 + TotalLen(SubSeq(runs, 1, k - 1))

\* q occurs in s at position p, letter case ignored
OccursAt(s, q, p) ==
    /\ p + Len(q) - 1 <= Len(s)
    /\ toLowerCase(SubSeq(s, p, p + Len(q) - 1)) = toLowerCase(q)

\* C11: a non-empty query that occurs in the text (case ignored) gets at
\* least one highlight, also when it contains <, > or &.
C11_MatchHighlighted ==
    (/\ pc = "marked"
     /\ query # EmptyString
     /\ HasSubstring(toLowerCase(text), toLowerCase(query)))
        => OpenMark \in Range(markup)

\* C12: every highlight wraps an occurrence of the query in the raw text and
\* no marker stands inside an entity: each run between markers is whole
\* escaped text, and each highlighted run reads back as the query.
C12_MarkersRespectEntities ==
    (pc = "marked" /\ query # EmptyString) =>
        /\ Balanced(markup)
        /\ \A k \in 1..Len(Runs(markup)) :
              LET run == Runs(markup)[k]
              IN  /\ escapeHtml(HtmlDecode(run)) = run
                  /\ k % 2 = 0 =>
                        toLowerCase(HtmlDecode(run)) = toLowerCase(query)

C14_QueryIsLiteral ==
    (pc = "marked" /\ query # EmptyString) =>
        /\ Balanced(markup)
        /\ \A k \in 1..Len(Runs(markup)) :
              k % 2 = 0 => toLowerCase(Runs(markup)[k]) = toLowerCase(query)

\* highlightText("a.b", ".") highlights the dot alone
C14_Witness ==
    /\ pc = "marked"
    /\ text = <<"a", ".", "b">>
    /\ query = <<".">>
    /\ markup = <<"a", OpenMark, ".", CloseMark, "b">>

\* C15: matches are taken from left to right without overlap, in the text as
\* it is scanned (the escaped text): every highlighted run is an occurrence
\* of the query, and no occurrence begins inside a run that is not
\* highlighted, so each match is the leftmost one behind the match before it.
C15_LeftmostNoOverlap ==
    (pc = "marked" /\ query # EmptyString) =>
        LET runs == Runs(markup)
            scanned == escapeHtml(text)
        IN  /\ Balanced(markup)
            /\ RemoveMarkers(markup) = scanned
            /\ \A k \in 1..Len(runs) :
                  IF k % 2 = 0
                  THEN /\ Len(runs[k]) = Len(query)
                       /\ OccursAt(scanned, query, RunStart(runs, k))
                  ELSE \A p \in RunStart(runs, k)
                                ..(RunStart(runs, k) + Len(runs[k]) - 1) :
                          ~OccursAt(scanned, query, p)

\* the query aa in the text aaa: one highlight, on the first two characters
C15_Witness ==
    /\ pc = "marked"
    /\ text = <<"a", "a", "a">>
    /\ query = <<"a", "a">>
    /\ markup = <<OpenMark, "a", "a", CloseMark, "a">>

\* C16: the content of a card is cut to the preview length before it is
\* highlighted: the card shows the first PreviewLength characters of the
\* content (escaped), every highlight lies wholly within them, and every
\* marker is closed.
C16_HighlightWithinPreview ==
    pc = "card" =>
        LET content == notes[1].content
            kept == escapeHtml(SubSeq(content, 1,
                        IF Len(content) > PreviewLength
                        THEN PreviewLength ELSE Len(content)))
            runs == Runs(markup.content)
            plain == RemoveMarkers(markup.content)
        IN  /\ Balanced(markup.content)
            /\ Len(plain) >= Len(kept)
            /\ SubSeq(plain, 1, Len(kept)) = kept
            /\ \A k \in 1..Len(runs) :
                  k % 2 = 0 =>
                     RunStart(runs, k) + Len(runs[k]) - 1 <= Len(kept)

\* C17: getFilteredNotes called twice on the same collection, query and sort
\* mode returns the same sequence twice: the first call leaves the state the
\* second one reads as it was, and the second call returns what the first
\* one returned.
C17_RequerySame ==
    [][/\ (pc = "input" /\ pc' = "output") =>
            notes' = notes /\ searchQuery' = searchQuery /\ sortBy' = sortBy
       /\ (pc = "output" /\ pc' = "again") =>
            rendered' = rendered /\ notes' = notes]_vars

\* a second run of a query that filtered and reordered the collection
C17_Witness ==
    /\ pc = "again"
    /\ searchQuery # EmptyString
    /\ Len(rendered) >= 2
    /\ Len(rendered) < Len(notes)
    /\ rendered # filterNotes(notes, searchQuery)

\* C18: a collection holding a note whose title or content is no text is
\* never processed to a result: the query fails, in every sort mode and for
\* every query, the empty one too.
C18_MalformedRejected ==
    pc = "output" => \A i \in 1..Len(notes) : ~IsMalformed(notes[i])

\* C19: under a clock that may advance between any two reads, every note
\* has updatedAt >= createdAt, and its updatedAt differs from its createdAt
\* exactly if updateNote was applied to it: a note just created has equal
\* stamps, a note just changed by updateNote has different ones.
C19_StampsTellEdits ==
    [][/\ \A i \in 1..Len(notes') :
            InstantOf(notes'[i].updatedAt) >= InstantOf(notes'[i].createdAt)
       /\ Len(notes') = Len(notes) + 1 =>
            notes'[1].updatedAt = notes'[1].createdAt
       /\ Len(notes') = Len(notes) =>
            \A i \in 1..Len(notes) :
                notes'[i] # notes[i] =>
                    notes'[i].updatedAt # notes'[i].createdAt]_vars

\* C20: the ids of the notes of the collection are pairwise distinct.
C20_IdsDistinct ==
    \A i, j \in 1..Len(notes) : i # j => notes[i].id # notes[j].id

\* C21: whatever text is stored under smartNotes, constructing the
\* application never stops with an unhandled error: init() runs to its end.
C21_InitNeverThrows == pc \in {"new", "app"}

\* C22: updateNote(id, title, content) changes the title, content and
\* updatedAt of one note with that id and nothing else of the collection:
\* every note keeps its place, its id and its createdAt, every other note is
\* as it was, and when no note has the id the collection, the store and the
\* rendered list are as they were.
UpdateFrame(id) ==
    /\ Len(notes') = Len(notes)
    /\ \A j \in 1..Len(notes) :
          /\ notes'[j].id = notes[j].id
          /\ notes'[j].createdAt = notes[j].createdAt
          /\ notes[j].id # id => notes'[j] = notes[j]
    /\ Cardinality({j \in 1..Len(notes) : notes'[j] # notes[j]}) <= 1
    /\ id \notin KnownIds =>
          /\ notes' = notes
          /\ storage' = storage
          /\ rendered' = rendered

C22_UpdateFrame ==
    [][\A id \in KnownIds \cup {NoSuchId} :
          \/ UpdateFrame(id)
          \/ ~\E title \in AppTitles, content \in AppContents :
                 updateNote(id, title, content)]_vars

\* the older of two notes was updated after the newer one was created: its
\* updatedAt is later than the createdAt of the note in front of it
C22_Witness ==
    /\ pc = "app"
    /\ Len(notes) = 2
    /\ notes[2].title # notes[1].title
    /\ InstantOf(notes[2].updatedAt) > InstantOf(notes[1].createdAt)
    /\ storage = jsonStringify(notes)

\* C23: as long as every save succeeded, the stored text is the
\* serialisation of the collection in memory, and loadNotes reads from it
\* the same notes in the same order.
C23_StoreRoundTrip ==
    (pc = "app" /\ saveFailures = 0) =>
        /\ storage # NoItem => storage = jsonStringify(notes)
        /\ loadNotes(storage) = notes

\* two notes saved, the one in front with different stamps
C23_Witness ==
    /\ pc = "app"
    /\ saveFailures = 0
    /\ Len(notes) = 2
    /\ notes[1].updatedAt # notes[1].createdAt
    /\ notes[1].title # notes[2].title
    /\ storage = jsonStringify(notes)

\* C24: in any order of the modal events, a submit while the note modal
\* stands open for a note changes no other note than that one, confirmDelete
\* while the delete modal stands open removes the notes with the id it was
\* opened for and no other, confirmDelete with currentNoteId null removes
\* nothing, and closing either modal leaves currentNoteId null.
C24_ModalsKeepTheirNote ==
    [][/\ (/\ "noteModal" \in activeModals
           /\ openedFor["noteModal"] # Null
           /\ \E titleValue \in FormTitles, contentValue \in FormContents :
                  handleSubmit(titleValue, contentValue))
             => /\ Len(notes') = Len(notes)
                /\ \A j \in 1..Len(notes) :
                      notes[j].id # openedFor["noteModal"]
                          => notes'[j] = notes[j]
       /\ ("deleteModal" \in activeModals /\ confirmDelete)
             => notes' = SelectSeq(notes,
                            LAMBDA n : n.id # openedFor["deleteModal"])
       /\ (currentNoteId = Null /\ confirmDelete) => notes' = notes
       /\ (clickCloseNoteModal \/ clickCloseDeleteModal)
             => currentNoteId' = Null]_vars

====
